---- MODULE Spec2Model ----
(***************************************************************************)
(* Model of the arXiv collector (src/arxiv_fetch.py): main(), the          *)
(* ArxivCollector constructor, the response parser, the two delivery       *)
(* sinks and the pagination loop of collect_papers().                      *)
(*                                                                         *)
(* Text is a sequence of one-character strings.  An Optional[str] is a     *)
(* sequence of length 0 (None) or 1 (the text).                            *)
(***************************************************************************)
EXTENDS Integers, Sequences, FiniteSets, TLC

\* ------------------------------------------------------------------ bounds
MaxEntries == 2        \* entries per response in the parser specification
MaxCalls == 2          \* _parse_response calls in the parser specification
MaxRunEntries == 1     \* entries per response in the run specification
MaxHalfPages == 5      \* total_results values are 0, 50, .., 50 * MaxHalfPages

\* ------------------------------------------------------- program constants
PageSize == 100

\* Op applied to the value of v, which is computed once
With(v, Op(_)) == CHOOSE r \in { Op(x) : x \in {v} } : TRUE

\* ------------------------------------------------------------ text helpers
None == <<>>
Some(t) == <<t>>

Digits == {"0", "1", "2", "3", "4", "5", "6", "7", "8", "9"}
Whitespace == {" ", "\n", "\t"}

DigitVal(c) ==
    CASE c = "0" -> 0 [] c = "1" -> 1 [] c = "2" -> 2 [] c = "3" -> 3
      [] c = "4" -> 4 [] c = "5" -> 5 [] c = "6" -> 6 [] c = "7" -> 7
      [] c = "8" -> 8 [] c = "9" -> 9

AllDigits(s) == \A i \in 1..Len(s) : s[i] \in Digits

RECURSIVE Decimal(_)
Decimal(s) ==
    IF Len(s) = 0 THEN 0
    ELSE 10 * Decimal(SubSeq(s, 1, Len(s) - 1)) + DigitVal(s[Len(s)])

\* str.strip(): drop leading and trailing whitespace
Strip(s) ==
    LET keep == {i \in 1..Len(s) : s[i] \notin Whitespace}
    IN  IF keep = {} THEN <<>>
        ELSE LET lo == CHOOSE i \in keep : \A j \in keep : i <= j
                 hi == CHOOSE i \in keep : \A j \in keep : j <= i
             IN  SubSeq(s, lo, hi)

\* s.split(sep)[-1]: the text after the last separator
LastSegment(s, sep) ==
    LET at == {i \in 1..Len(s) : s[i] = sep}
    IN  IF at = {} THEN s
        ELSE LET last == CHOOSE i \in at : \A j \in at : j <= i
             IN  SubSeq(s, last + 1, Len(s))

\* s.split(sep)[0]: the text before the first separator
FirstSegment(s, sep) ==
    LET at == {i \in 1..Len(s) : s[i] = sep}
    IN  IF at = {} THEN s
        ELSE LET first == CHOOSE i \in at : \A j \in at : i <= j
             IN  SubSeq(s, 1, first - 1)

\* _safe_get_text: ElementTree gives text None for an absent or empty element
safe_get_text(elem) == IF elem # None /\ Len(elem[1]) > 0 THEN elem ELSE None

\* truthiness of an Optional[str] inside all([...])
Truthy(opt) == opt # None /\ Len(opt[1]) > 0

\* id_str.split('/')[-1].split('v')[0]
NormalizeId(id_str) == FirstSegment(LastSegment(id_str, "/"), "v")

\* ------------------------------------------------------- _parse_datetime
\* datetime.strptime(date_str, "%Y-%m-%dT%H:%M:%SZ"): the format is compiled
\* to a case-insensitive regular expression in which %Y is four digits and
\* %m %d %H %M %S are one or two digits; the whole string must match, the
\* fields must be in range and must name a real calendar day.
IndexOf(s, cs) ==
    LET at == {i \in 1..Len(s) : s[i] \in cs}
    IN  IF at = {} THEN 0 ELSE CHOOSE i \in at : \A j \in at : i <= j

Before(s, cs) == SubSeq(s, 1, IndexOf(s, cs) - 1)
After(s, cs) == SubSeq(s, IndexOf(s, cs) + 1, Len(s))

\* the text before the first character in cs and the text after it, or <<>>
\* when no character of s is in cs
Cut(s, cs) ==
    IF IndexOf(s, cs) = 0 THEN <<>> ELSE << Before(s, cs), After(s, cs) >>

\* the six fields of the format, or <<>> when the literals are not all there
DateFields(s) ==
    With(Cut(s, {"-"}), LAMBDA c1 :
      IF c1 = <<>> THEN <<>> ELSE
    With(Cut(c1[2], {"-"}), LAMBDA c2 :
      IF c2 = <<>> THEN <<>> ELSE
    With(Cut(c2[2], {"T", "t"}), LAMBDA c3 :
      IF c3 = <<>> THEN <<>> ELSE
    With(Cut(c3[2], {":"}), LAMBDA c4 :
      IF c4 = <<>> THEN <<>> ELSE
    With(Cut(c4[2], {":"}), LAMBDA c5 :
      IF c5 = <<>> THEN <<>> ELSE
    With(Cut(c5[2], {"Z", "z"}), LAMBDA c6 :
      IF c6 = <<>> \/ c6[2] # <<>> THEN <<>>
      ELSE << c1[1], c2[1], c3[1], c4[1], c5[1], c6[1] >> ))))))

OneOrTwoDigits(f) == Len(f) \in {1, 2} /\ AllDigits(f)

IsLeap(y) == (y % 4 = 0 /\ y % 100 # 0) \/ y % 400 = 0

DaysInMonth(y, m) ==
    IF m = 2 THEN (IF IsLeap(y) THEN 29 ELSE 28)
    ELSE IF m \in {4, 6, 9, 11} THEN 30 ELSE 31

\* strptime succeeds (no ValueError)
StrptimeOk(s) ==
    With(DateFields(s), LAMBDA f :
        /\ f # <<>>
        /\ Len(f[1]) = 4 /\ AllDigits(f[1]) /\ Decimal(f[1]) >= 1
        /\ OneOrTwoDigits(f[2]) /\ Decimal(f[2]) \in 1..12
        /\ OneOrTwoDigits(f[3])
        /\ Decimal(f[3]) \in 1..DaysInMonth(Decimal(f[1]), Decimal(f[2]))
        /\ OneOrTwoDigits(f[4]) /\ Decimal(f[4]) \in 0..23
        /\ OneOrTwoDigits(f[5]) /\ Decimal(f[5]) \in 0..59
        /\ OneOrTwoDigits(f[6]) /\ Decimal(f[6]) \in 0..59)

\* days from 1970-01-01 to the civil date y-m-d
DaysFromCivil(y, m, d) ==
    LET yy == IF m <= 2 THEN y - 1 ELSE y
        era == yy \div 400
        yoe == yy - era * 400
        mp == IF m > 2 THEN m - 3 ELSE m + 9
        doy == (153 * mp + 2) \div 5 + d - 1
        doe == yoe * 365 + yoe \div 4 - yoe \div 100 + doy
    IN  era * 146097 + doe - 719468

\* the wall-clock fields read as seconds since the epoch, were they UTC
WallSeconds(s) ==
    With(DateFields(s), LAMBDA f :
        DaysFromCivil(Decimal(f[1]), Decimal(f[2]), Decimal(f[3])) * 86400
          + Decimal(f[4]) * 3600 + Decimal(f[5]) * 60 + Decimal(f[6]))

\* int(dt.timestamp()) of the naive datetime strptime returns: a naive
\* datetime is read as local time, utcoffset hours east of UTC
parse_datetime(date_str, utcoffset) == WallSeconds(date_str) - utcoffset * 3600

\* ------------------------------------------------------- _parse_response
\* An entry of the feed, as ElementTree presents it:
\*   id, title, summary, published : the element's text, None if the element
\*       is absent;
\*   authors : one Optional per atom:author, the text of its atom:name;
\*   categories : one Optional per atom:category, its term attribute.

\* names of the authors whose atom:name has text (lines 134-139)
RECURSIVE AuthorNames(_)
AuthorNames(authors) ==
    IF authors = <<>> THEN <<>>
    ELSE LET name_text == safe_get_text(Head(authors))
         IN  (IF name_text # None THEN <<name_text[1]>> ELSE <<>>)
               \o AuthorNames(Tail(authors))

\* terms of the categories that have a term attribute (lines 146-150)
RECURSIVE CategoryTerms(_)
CategoryTerms(cats) ==
    IF cats = <<>> THEN <<>>
    ELSE (IF Head(cats) # None THEN <<Head(cats)[1]>> ELSE <<>>)
           \o CategoryTerms(Tail(cats))

\* all([id_text, title_text, summary_text, published_text]) (line 117)
RequiredPresent(id_text, title_text, summary_text, published_text) ==
    Truthy(id_text) /\ Truthy(title_text) /\ Truthy(summary_text)
      /\ Truthy(published_text)

\* mutant: the dedup set is never consulted
AlreadyProcessed_Never(arxiv_id, processed) == FALSE

\* arxiv_id in self.processed_papers (line 130)
AlreadyProcessed(arxiv_id, processed) == arxiv_id \in processed

\* the body of the for loop for one entry: <<paper>> when a paper is appended,
\* <<>> when the entry is skipped by a continue or by the except clause
ParseEntry(entry, processed, utcoffset) ==
    LET id_text == safe_get_text(entry.id)
        title_text == safe_get_text(entry.title)
        summary_text == safe_get_text(entry.summary)
        published_text == safe_get_text(entry.published)
    IN  IF ~RequiredPresent(id_text, title_text, summary_text, published_text)
        THEN <<>>
        ELSE LET arxiv_id == NormalizeId(id_text[1])
                 authors == AuthorNames(entry.authors)
                 categories == CategoryTerms(entry.categories)
             IN  IF AlreadyProcessed(arxiv_id, processed) THEN <<>>
                 ELSE IF authors = <<>> THEN <<>>
                 ELSE IF categories = <<>> THEN <<>>
                 ELSE IF ~StrptimeOk(published_text[1]) THEN <<>>
                 ELSE << [ arxiv_id |-> arxiv_id,
                           title |-> Strip(title_text[1]),
                           authors |-> authors,
                           abstract |-> Strip(summary_text[1]),
                           categories |-> categories,
                           published_date |->
                               parse_datetime(published_text[1], utcoffset) ] >>

\* mutant: the id of every entry that has one is put in the dedup set,
\* also when the entry is dropped
RECURSIVE ParseEntries_MarksDropped(_, _, _)
ParseEntries_MarksDropped(entries, processed, utcoffset) ==
    IF entries = <<>> THEN [papers |-> <<>>, processed |-> processed]
    ELSE With(ParseEntry(Head(entries), processed, utcoffset), LAMBDA one :
         With(ParseEntries_MarksDropped(Tail(entries),
                           IF Truthy(safe_get_text(Head(entries).id))
                           THEN processed
                                  \cup {NormalizeId(Head(entries).id[1])}
                           ELSE processed,
                           utcoffset), LAMBDA rest :
             [papers |-> one \o rest.papers, processed |-> rest.processed]))

\* mutant: a paper is put in front of the list instead of appended to it
RECURSIVE ParseEntries_Prepend(_, _, _)
ParseEntries_Prepend(entries, processed, utcoffset) ==
    IF entries = <<>> THEN [papers |-> <<>>, processed |-> processed]
    ELSE With(ParseEntry(Head(entries), processed, utcoffset), LAMBDA one :
         With(ParseEntries_Prepend(Tail(entries),
                           IF one = <<>> THEN processed
                           ELSE processed \cup {one[1].arxiv_id},
                           utcoffset), LAMBDA rest :
             [papers |-> rest.papers \o one, processed |-> rest.processed]))

\* the for loop over the entries: the papers appended and the dedup set after
RECURSIVE ParseEntries(_, _, _)
ParseEntries(entries, processed, utcoffset) ==
    IF entries = <<>> THEN [papers |-> <<>>, processed |-> processed]
    ELSE With(ParseEntry(Head(entries), processed, utcoffset), LAMBDA one :
         With(ParseEntries(Tail(entries),
                           IF one = <<>> THEN processed
                           ELSE processed \cup {one[1].arxiv_id},
                           utcoffset), LAMBDA rest :
             [papers |-> one \o rest.papers, processed |-> rest.processed]))

\* int(text): surrounding whitespace and one sign are accepted
IntOk(text) ==
    LET t == Strip(text)
        d == IF Len(t) > 0 /\ t[1] \in {"-", "+"} THEN Tail(t) ELSE t
    IN  Len(d) > 0 /\ AllDigits(d)

IntOf(text) ==
    LET t == Strip(text)
    IN  IF t[1] = "-" THEN 0 - Decimal(Tail(t))
        ELSE IF t[1] = "+" THEN Decimal(Tail(t))
        ELSE Decimal(t)

\* A response body: wellformed (ET.fromstring accepts it), total (the text
\* of opensearch:totalResults, None if absent), entries.
\* An exception leaves _parse_response before it reaches the entries:
\* ET.fromstring raises, the count is absent, or int() raises (lines 85-99)
ParseRaised(response) ==
    \/ ~response.wellformed
    \/ safe_get_text(response.total) = None
    \/ ~IntOk(safe_get_text(response.total)[1])

\* _parse_response: raised is TRUE when an exception leaves the function
parse_response(response, processed, utcoffset) ==
    IF ParseRaised(response)
    THEN [raised |-> TRUE, papers |-> <<>>, total_results |-> 0,
          processed |-> processed]
    ELSE With(ParseEntries(response.entries, processed, utcoffset),
              LAMBDA r :
                  [raised |-> FALSE, papers |-> r.papers,
                   total_results |-> IntOf(safe_get_text(response.total)[1]),
                   processed |-> r.processed])

\* ------------------------------------------------------------ input sets
DigitChar(d) ==
    CASE d = 0 -> "0" [] d = 1 -> "1" [] d = 2 -> "2" [] d = 3 -> "3"
      [] d = 4 -> "4" [] d = 5 -> "5" [] d = 6 -> "6" [] d = 7 -> "7"
      [] d = 8 -> "8" [] d = 9 -> "9"

\* the decimal numeral of a natural number, as the feed prints it
RECURSIVE Chars(_)
Chars(n) ==
    IF n < 10 THEN << DigitChar(n) >>
    ELSE Append(Chars(n \div 10), DigitChar(n % 10))

Id1v1 == <<"a", "/", "1", "v", "1">>
Id1v2 == <<"a", "/", "1", "v", "2">>
Id2 == <<"a", "/", "2">>
PlainText == <<"T">>
PaddedText == <<" ", "T", " ", "x", "\n">>
BlankText == <<" ", "\n">>
StrictDate == <<"2", "0", "2", "4", "-", "0", "1", "-", "1", "5", "T",
                "0", "8", ":", "3", "0", ":", "0", "0", "Z">>
UnpaddedDate == <<"2", "0", "2", "4", "-", "1", "-", "1", "5", "T",
                  "8", ":", "3", "0", ":", "0", "0", "Z">>
SpaceDate == <<"2", "0", "2", "4", "-", "0", "1", "-", "1", "5", " ",
               "0", "8", ":", "3", "0", ":", "0", "0">>
NoSuchDay == <<"2", "0", "2", "3", "-", "0", "2", "-", "2", "9", "T",
               "0", "8", ":", "3", "0", ":", "0", "0", "Z">>

Good(id) ==
    [ id |-> Some(id), title |-> Some(PlainText), summary |-> Some(PlainText),
      published |-> Some(StrictDate), authors |-> << Some(<<"A">>) >>,
      categories |-> << Some(<<"c">>) >> ]

GoodEntries ==
    { Good(Id1v1), Good(Id1v2),
      [Good(Id2) EXCEPT !.title = Some(PaddedText),
                        !.summary = Some(PaddedText),
                        !.authors = << None, Some(<<"A">>), Some(<<"B">>) >>,
                        !.categories = << Some(<<"c">>), None, Some(<<"d">>) >>] }

\* entries the parser drops whatever the dedup set holds
DefectiveEntries ==
    { [Good(Id1v1) EXCEPT !.id = None],
      [Good(Id1v1) EXCEPT !.title = None],
      [Good(Id1v1) EXCEPT !.summary = None],
      [Good(Id1v1) EXCEPT !.published = None],
      [Good(Id1v1) EXCEPT !.published = Some(SpaceDate)],
      [Good(Id1v1) EXCEPT !.published = Some(NoSuchDay)],
      [Good(Id1v1) EXCEPT !.authors = <<>>],
      [Good(Id1v1) EXCEPT !.authors = << None >>],
      [Good(Id1v1) EXCEPT !.categories = <<>>],
      [Good(Id1v1) EXCEPT !.categories = << None >>] }

\* entries with all fields present whose text the schema does not expect
OddEntries ==
    { [Good(Id2) EXCEPT !.title = Some(BlankText)],
      [Good(Id2) EXCEPT !.summary = Some(BlankText)],
      [Good(Id2) EXCEPT !.published = Some(UnpaddedDate)] }

ParserEntries == GoodEntries \cup DefectiveEntries \cup OddEntries
RunEntries == { Good(Id1v1), Good(Id2) }

SeqsUpTo(S, n) == UNION { [1..k -> S] : k \in 0..n }

Unparsable == [wellformed |-> FALSE, total |-> None, entries |-> <<>>]
NoTotal == [wellformed |-> TRUE, total |-> None, entries |-> << Good(Id1v1) >>]
BadTotal == [wellformed |-> TRUE, total |-> Some(<<"n", "a">>),
             entries |-> << Good(Id1v1) >>]

TotalValues == { 50 * k : k \in 0..MaxHalfPages }

Feed(total, entries) ==
    [wellformed |-> TRUE, total |-> Some(Chars(total)), entries |-> entries]

ParserResponses ==
    { Feed(50, es) : es \in SeqsUpTo(ParserEntries, MaxEntries) }
      \cup { Unparsable, NoTotal, BadTotal }

\* a page of two papers, the newer id first
PairPage == Feed(150, << Good(Id2), Good(Id1v1) >>)

RunResponses ==
    { Feed(t, es) : t \in TotalValues, es \in SeqsUpTo(RunEntries, MaxRunEntries) }
      \cup { PairPage, Unparsable, NoTotal, BadTotal }

\* offsets of the local time zone of the process, hours east of UTC
LocalOffsets == {0, 8}

\* no response body is at hand
NoResponse == [wellformed |-> FALSE, total |-> None, entries |-> <<>>]

\* ------------------------------------------------------------ environment
\* The environment variables main() and the constructor read, and the
\* offset of the local time zone of the process (hours east of UTC).
KeyStrings == {"unset", "garbage", "ec-pem", "rsa-pem"}

AllEnvs ==
    [ OUTPUT_MODE : {"api", "local", "ftp"},
      ENABLE_SIGNATURE : {"", "true"},
      API_SERVICE_URL : {"", "http://sink"},
      ARXIV_IMPORT_PRIVATE_KEY : KeyStrings,
      ENABLE_AUTH : {"", "true"},
      API_KEY : {"unset", "secret"},
      utcoffset : LocalOffsets ]

\* settings that only the remote sink uses are left unset outside api mode;
\* the zone offset varies where the local clock is used, in local mode
Envs ==
    { e \in AllEnvs :
        /\ e.ENABLE_AUTH = "" => e.API_KEY = "unset"
        /\ e.OUTPUT_MODE # "api" =>
             /\ e.API_SERVICE_URL = ""
             /\ e.ARXIV_IMPORT_PRIVATE_KEY = "unset"
             /\ e.ENABLE_AUTH = ""
        /\ e.OUTPUT_MODE = "ftp" => e.ENABLE_SIGNATURE = "" /\ e.utcoffset = 0
        /\ e.OUTPUT_MODE = "api" => e.utcoffset = 0
        /\ e.ENABLE_SIGNATURE = "" =>
             e.ARXIV_IMPORT_PRIVATE_KEY \in {"unset", "rsa-pem"} }

\* os.getenv(name) is falsy: the variable is unset or empty
Unset(v) == v \in {"unset", ""}

\* ------------------------------------------------------------------ state
VARIABLES
    env,               \* the process environment
    pc,                \* where the process is
    exit_status,       \* Running, or the status the process ended with
    self,              \* the collector's configuration attributes
    processed_papers,  \* self.processed_papers, the dedup set
    start,             \* collect_papers: start
    response,          \* the body of the response being handled, or NoResponse
    papers,            \* the batch _parse_response returned
    total_results,     \* the count _parse_response returned
    calls,             \* number of _parse_response calls so far
    gets,              \* history: the start of every GET issued
    deliveries,        \* history: every hand-off to a sink
    sleeps,            \* history: number of time.sleep(3) calls
    fatal,             \* history: the fatal conditions the run has met
    first_total,       \* history: total_results of the first page, or NoTotalYet
    stable,            \* history: every page so far reported first_total
    emitted,           \* history: arxiv_id of every paper returned so far
    prev_processed,    \* history: the dedup set when the last parse began
    clock,             \* the UTC wall clock, in seconds
    files,             \* the output directory: file name -> lines written
    posts,             \* history: every POST handed to requests.post
    signed,            \* history: every byte string _sign_request was given
    ranges,            \* history: the date-range fragment of every GET
    log                \* history: the GETs, sink calls and sleeps, in order

vars == << env, pc, exit_status, self, processed_papers, start, response,
           papers, total_results, calls, gets, deliveries, sleeps, fatal,
           first_total, stable, emitted, prev_processed, clock, files,
           posts, signed, ranges, log >>

\* an entry of log
Event(ev, offset) == [ev |-> ev, start |-> offset]

Running == -1
NoTotalYet == -1

NoCollector ==
    [ constructed |-> FALSE, output_mode |-> "", api_service_url |-> None,
      enable_signature |-> FALSE, private_key |-> "none" ]

\* ---------------------------------------------------------- construction
\* mutant: the isinstance check is missing, any PEM key is returned
load_private_key_AnyPem(private_key_str) ==
    IF private_key_str \in {"rsa-pem", "ec-pem"} THEN "rsa-key" ELSE "ValueError"

\* _load_private_key: the RSA key, or "ValueError"
load_private_key(private_key_str) ==
    IF private_key_str = "rsa-pem" THEN "rsa-key" ELSE "ValueError"

\* ArxivCollector.__init__: raised is TRUE when ValueError leaves it
Construct(output_mode, api_service_url, enable_signature, e) ==
    LET needs_key == enable_signature /\ output_mode = "api"
        key_str == e.ARXIV_IMPORT_PRIVATE_KEY
        key == IF needs_key /\ ~Unset(key_str)
               THEN load_private_key(key_str) ELSE "none"
    IN  IF needs_key /\ (Unset(key_str) \/ key = "ValueError")
        THEN [raised |-> TRUE, self |-> NoCollector]
        ELSE [raised |-> FALSE,
              self |-> [ constructed |-> TRUE, output_mode |-> output_mode,
                         api_service_url |-> api_service_url,
                         enable_signature |-> enable_signature,
                         private_key |-> key ]]

\* mutant: the check of API_SERVICE_URL is missing
ConfigValid_NoUrlCheck(output_mode, enable_signature, api_service_url, e) ==
    /\ output_mode \in {"api", "local"}
    /\ output_mode = "api" =>
         ~(enable_signature /\ Unset(e.ARXIV_IMPORT_PRIVATE_KEY))

\* main(), lines 272-285: the configuration is accepted
ConfigValid(output_mode, enable_signature, api_service_url, e) ==
    /\ output_mode \in {"api", "local"}
    /\ output_mode = "api" =>
         /\ api_service_url # ""
         /\ ~(enable_signature /\ Unset(e.ARXIV_IMPORT_PRIVATE_KEY))

\* the authentication toggle of the configuration surface: enabled
\* without a key is an invalid combination
AuthValid(e) == ~(e.ENABLE_AUTH = "true" /\ Unset(e.API_KEY))

Exit(status) ==
    /\ pc' = "exited"
    /\ exit_status' = status

\* main(): read the configuration, validate it, construct the collector
Main ==
    /\ pc = "main"
    /\ LET output_mode == env.OUTPUT_MODE
           enable_signature == env.ENABLE_SIGNATURE = "true"
           api_service_url == env.API_SERVICE_URL
           c == Construct(output_mode,
                          IF api_service_url # "" THEN Some(api_service_url)
                          ELSE None,
                          enable_signature, env)
       IN  IF ~ConfigValid(output_mode, enable_signature, api_service_url, env)
           THEN \* print and return
                /\ Exit(0)
                /\ fatal' = fatal \cup {"config"}
                /\ UNCHANGED self
           ELSE IF ~AuthValid(env)
           THEN /\ Exit(1)
                /\ fatal' = fatal \cup {"config"}
                /\ UNCHANGED self
           ELSE IF c.raised
           THEN \* the ValueError is not caught: traceback, status 1
                /\ Exit(1)
                /\ fatal' = fatal \cup {"key"}
                /\ UNCHANGED self
           ELSE /\ pc' = "get"
                /\ self' = c.self
                /\ UNCHANGED << exit_status, fatal >>
    /\ UNCHANGED << env, processed_papers, start, response, papers,
                    total_results, calls, gets, deliveries, sleeps,
                    first_total, stable, emitted, prev_processed, clock,
                    files, posts, signed, ranges, log >>

\* ---------------------------------------------------------- serialisation
\* A serialised text is a sequence of pieces (strings) whose concatenation
\* is the text json.dumps returns with its default separators ", " and ": ".
\* The texts of the model are ASCII, which encode('utf-8') and
\* ensure_ascii leave as they are.
EscapeChar(c) ==
    CASE c = "\"" -> "\\\""
      [] c = "\\" -> "\\\\"
      [] c = "\n" -> "\\n"
      [] c = "\t" -> "\\t"
      [] OTHER -> c

\* a str as a JSON string
JsonString(s) ==
    <<"\"">> \o [i \in 1..Len(s) |-> EscapeChar(s[i])] \o <<"\"">>

\* a list whose items are already serialised
RECURSIVE JsonList(_)
JsonList(items) ==
    IF items = <<>> THEN <<"[", "]">>
    ELSE IF Len(items) = 1 THEN <<"[">> \o items[1] \o <<"]">>
    ELSE <<"[">> \o items[1] \o <<", ">>
           \o Tail(JsonList(Tail(items)))

JsonStrings(ss) == JsonList([i \in 1..Len(ss) |-> JsonString(ss[i])])

\* the paper dict of lines 159-166, keys in insertion order
JsonPaper(paper) ==
    <<"{", "\"arxiv_id\": ">> \o JsonString(paper.arxiv_id)
      \o <<", \"title\": ">> \o JsonString(paper.title)
      \o <<", \"authors\": ">> \o JsonStrings(paper.authors)
      \o <<", \"abstract\": ">> \o JsonString(paper.abstract)
      \o <<", \"categories\": ">> \o JsonStrings(paper.categories)
      \o <<", \"published_date\": ">> \o Chars(paper.published_date)
      \o <<"}">>

JsonPapers(ps) == JsonList([i \in 1..Len(ps) |-> JsonPaper(ps[i])])

\* json.dumps({'papers': papers}).encode('utf-8') (lines 185-186)
RequestBody(ps) == <<"{", "\"papers\": ">> \o JsonPapers(ps) \o <<"}">>

\* ------------------------------------------------------------ remote sink
\* _sign_request: the SHA-256 digest of the body, signed with the key
\* (PKCS#1 v1.5, SHA-256) and Base64 encoded; the primitives are symbolic
Sha256(bytes) == [sha256 |-> bytes]

sign_request(private_key, request_body) ==
    [ base64 |-> [ key |-> private_key, padding |-> "PKCS1v15",
                   hash |-> "SHA256", message |-> Sha256(request_body) ] ]

\* mutant: the X-Signature header is never added
RequestHeaders_NoSignature(enable_signature, signature) ==
    [ ContentType |-> Some("application/json"), XSignature |-> None ]

\* the headers dict of lines 189-194
RequestHeaders(enable_signature, signature) ==
    [ ContentType |-> Some("application/json"),
      XSignature |-> IF enable_signature THEN Some(signature) ELSE None ]

\* the authentication header of the remote sink: the pre-shared key when
\* authentication is enabled
AuthHeaders(e) ==
    [ XApiKey |-> IF e.ENABLE_AUTH = "true" THEN Some(e.API_KEY) ELSE None ]

\* mutant: the signature is computed over the list of papers alone, the
\* body sent is the whole object
ApiRequest_SignsPapersOnly(ps, enable_signature, private_key) ==
    With(RequestBody(ps), LAMBDA request_body :
        [ data |-> request_body,
          headers |-> RequestHeaders(enable_signature,
                          sign_request(private_key, JsonPapers(ps))),
          signed |-> IF enable_signature THEN << JsonPapers(ps) >> ELSE <<>> ])

\* lines 185-201: the body and the headers handed to requests.post, and
\* the byte strings _sign_request was called with
ApiRequest(ps, enable_signature, private_key) ==
    With(RequestBody(ps), LAMBDA request_body :
        [ data |-> request_body,
          headers |-> RequestHeaders(enable_signature,
                          sign_request(private_key, request_body)),
          signed |-> IF enable_signature THEN << request_body >> ELSE <<>> ])

\* ------------------------------------------------------------- local sink
\* datetime.now().strftime('%Y%m%d_%H%M%S') (line 211): the local wall
\* clock, to the second
LocalStamp(now, utcoffset) == now + utcoffset * 3600

\* the lines written by the with block (lines 216-219), one per paper
JsonLines(ps) == [i \in 1..Len(ps) |-> JsonPaper(ps[i]) \o <<"\n">>]

\* open(filepath, 'w') creates the file or truncates the one of that name
WriteFile(fs, name, lines) ==
    [n \in DOMAIN fs \cup {name} |-> IF n = name THEN lines ELSE fs[n]]

\* ------------------------------------------------------ _format_date_range
FetchHours == 24

\* strftime('%Y%m%d%H%M') keeps the minute and drops the seconds;
\* now is in seconds, the fragment is in minutes
format_date_range(now) ==
    [ from |-> (now - FetchHours * 3600) \div 60, to |-> now \div 60 ]

\* time.sleep(3) (line 260)
SleepSeconds == 3

\* -------------------------------------------------------- collect_papers
\* mutant: the except clause goes on with the loop instead of leaving it
CaughtAndBreak_Continue(condition) ==
    /\ pc' = "get"
    /\ exit_status' = exit_status
    /\ fatal' = fatal \cup {condition}

\* the except clause of the loop (lines 262-264): print, break; the function
\* and main() then return and the interpreter exits with status 0
CaughtAndBreak(condition) ==
    /\ Exit(0)
    /\ fatal' = fatal \cup {condition}

\* the paging parameters of the query (lines 231-237)
GetParams(offset) == [start |-> offset, max_results |-> PageSize]

\* requests.get returns a 2xx response (lines 241-242)
GetOk ==
    /\ pc = "get"
    /\ \E r \in RunResponses : response' = r
    /\ gets' = Append(gets, GetParams(start))
    /\ ranges' = Append(ranges, format_date_range(clock))
    /\ log' = Append(log, Event("get", start))
    /\ pc' = "parse"
    /\ UNCHANGED << env, exit_status, self, processed_papers, start, papers,
                    total_results, calls, deliveries, sleeps, fatal,
                    first_total, stable, emitted, prev_processed, clock,
                    files, posts, signed >>

\* requests.get raises, or raise_for_status raises on a non-2xx status
GetFail ==
    /\ pc = "get"
    /\ gets' = Append(gets, GetParams(start))
    /\ ranges' = Append(ranges, format_date_range(clock))
    /\ log' = Append(log, Event("get", start))
    /\ CaughtAndBreak("get")
    /\ UNCHANGED << env, self, processed_papers, start, response, papers,
                    total_results, calls, deliveries, sleeps, first_total,
                    stable, emitted, prev_processed, clock, files, posts,
                    signed >>

\* what a call of _parse_response on body r does to the state
ParseEffect(r) ==
    \E res \in { parse_response(r, processed_papers, env.utcoffset) } :
        /\ calls' = calls + 1
        /\ prev_processed' = processed_papers
        /\ processed_papers' = res.processed
        /\ papers' = res.papers
        /\ emitted' = emitted \o [i \in 1..Len(res.papers) |->
                                      res.papers[i].arxiv_id]
        /\ total_results' = IF res.raised THEN total_results
                            ELSE res.total_results
        /\ first_total' = IF ~res.raised /\ first_total = NoTotalYet
                          THEN res.total_results ELSE first_total
        /\ stable' = IF res.raised THEN stable
                     ELSE stable /\ first_total \in {NoTotalYet, res.total_results}

\* papers, total_results = self._parse_response(response.text) (line 245)
Parse ==
    /\ pc = "parse"
    /\ ParseEffect(response)
    /\ IF ParseRaised(response)
       THEN CaughtAndBreak("parse")
       ELSE /\ pc' = "deliver"
            /\ UNCHANGED << exit_status, fatal >>
    /\ UNCHANGED << env, self, start, response, gets, deliveries, sleeps,
                    clock, files, posts, signed, ranges, log >>

Ids(ps) == [i \in 1..Len(ps) |-> ps[i].arxiv_id]

\* if papers: is false (line 248): no sink is called
NoDelivery ==
    /\ pc = "deliver"
    /\ papers = <<>>
    /\ pc' = "advance"
    /\ UNCHANGED << env, exit_status, self, processed_papers, start, response,
                    papers, total_results, calls, gets, deliveries, sleeps,
                    fatal, first_total, stable, emitted, prev_processed,
                    clock, files, posts, signed, ranges, log >>

\* mutant: the two branches of the mode test are exchanged
SelectSink_Swapped(output_mode) ==
    IF output_mode = "api" THEN "local" ELSE "api"

\* if self.output_mode == 'api': .. else: .. (lines 249-252)
SelectSink(output_mode) ==
    IF output_mode = "api" THEN "api" ELSE "local"

\* _send_to_api_service (lines 177-205): post is what requests.post and
\* raise_for_status do.  Every exception is caught inside the function and
\* printed.
SendToApiService ==
    /\ pc = "deliver"
    /\ papers # <<>>
    /\ SelectSink(self.output_mode) = "api"
    /\ \E post \in {"ok", "http_error", "transport_error"},
          req \in { ApiRequest(papers, self.enable_signature,
                               self.private_key) } :
         IF self.api_service_url = None
         THEN UNCHANGED << deliveries, fatal, posts, signed >>
         ELSE LET \* self.private_key is read only when signing is enabled;
                  \* an attribute that was never set raises inside the try
                  outcome == IF self.enable_signature /\ self.private_key = "none"
                             THEN "sign_error" ELSE post
              IN  /\ deliveries' = Append(deliveries,
                        [ sink |-> "api", start |-> start, ids |-> Ids(papers),
                          signed_with |-> IF self.enable_signature
                                          THEN self.private_key ELSE "unsigned",
                          outcome |-> outcome ])
                  /\ signed' = signed \o req.signed
                  /\ posts' = IF outcome = "sign_error" THEN posts
                              ELSE Append(posts,
                                     [ url |-> self.api_service_url[1],
                                       data |-> req.data,
                                       headers |-> req.headers,
                                       auth |-> AuthHeaders(env) ])
                  /\ fatal' = IF outcome = "ok" THEN fatal
                              ELSE fatal \cup {"delivery"}
    /\ log' = Append(log, Event("deliver", start))
    /\ pc' = "advance"
    /\ UNCHANGED << env, exit_status, self, processed_papers, start, response,
                    papers, total_results, calls, gets, sleeps, first_total,
                    stable, emitted, prev_processed, clock, files, ranges >>

\* _save_to_local (lines 207-222): outcome is what open does.  Every
\* exception is caught inside the function and printed.
SaveToLocal ==
    /\ pc = "deliver"
    /\ papers # <<>>
    /\ SelectSink(self.output_mode) = "local"
    /\ \E outcome \in {"ok", "write_error"} :
         /\ deliveries' = Append(deliveries,
               [ sink |-> "local", start |-> start, ids |-> Ids(papers),
                 signed_with |-> "unsigned", outcome |-> outcome ])
         /\ files' = IF outcome = "ok"
                     THEN WriteFile(files, LocalStamp(clock, env.utcoffset),
                                    JsonLines(papers))
                     ELSE files
         /\ fatal' = IF outcome = "ok" THEN fatal
                     ELSE fatal \cup {"delivery"}
    /\ log' = Append(log, Event("deliver", start))
    /\ pc' = "advance"
    /\ UNCHANGED << env, exit_status, self, processed_papers, start, response,
                    papers, total_results, calls, gets, sleeps, first_total,
                    stable, emitted, prev_processed, clock, posts, signed,
                    ranges >>

\* mutant: the loop goes on when start equals total_results
Advance_OffByOne ==
    /\ pc = "advance"
    /\ start' = start + PageSize
    /\ IF start + PageSize > total_results
       THEN Exit(0)
       ELSE pc' = "sleep" /\ UNCHANGED exit_status
    /\ response' = NoResponse
    /\ papers' = <<>>
    /\ log' = log
    /\ UNCHANGED << env, self, processed_papers, total_results, calls, gets,
                    deliveries, sleeps, fatal, first_total, stable, emitted,
                    prev_processed, clock, files, posts, signed, ranges >>

\* mutant: start advances by half a page
Advance_HalfStep ==
    /\ pc = "advance"
    /\ start' = start + PageSize \div 2
    /\ IF start + PageSize \div 2 >= total_results
       THEN Exit(0)
       ELSE pc' = "sleep" /\ UNCHANGED exit_status
    /\ response' = NoResponse
    /\ papers' = <<>>
    /\ log' = log
    /\ UNCHANGED << env, self, processed_papers, total_results, calls, gets,
                    deliveries, sleeps, fatal, first_total, stable, emitted,
                    prev_processed, clock, files, posts, signed, ranges >>

\* mutant: the sleep precedes the test that ends the loop
Advance_SleepBeforeBreak ==
    /\ pc = "advance"
    /\ start' = start + PageSize
    /\ sleeps' = sleeps + 1
    /\ clock' = clock + SleepSeconds
    /\ log' = Append(log, Event("sleep", start + PageSize))
    /\ IF start + PageSize >= total_results
       THEN Exit(0)
       ELSE pc' = "get" /\ UNCHANGED exit_status
    /\ response' = NoResponse
    /\ papers' = <<>>
    /\ UNCHANGED << env, self, processed_papers, total_results, calls, gets,
                    deliveries, fatal, first_total, stable, emitted,
                    prev_processed, files, posts, signed, ranges >>

\* start += max_results; if start >= total_results: break (lines 255-257).
\* The response and the batch of the finished iteration are dead.
Advance ==
    /\ pc = "advance"
    /\ start' = start + PageSize
    /\ IF start + PageSize >= total_results
       THEN Exit(0)
       ELSE pc' = "sleep" /\ UNCHANGED exit_status
    /\ response' = NoResponse
    /\ papers' = <<>>
    /\ log' = log
    /\ UNCHANGED << env, self, processed_papers, total_results, calls, gets,
                    deliveries, sleeps, fatal, first_total, stable, emitted,
                    prev_processed, clock, files, posts, signed, ranges >>

\* time.sleep(3) (line 260), then the next iteration
Sleep ==
    /\ pc = "sleep"
    /\ sleeps' = sleeps + 1
    /\ clock' = clock + SleepSeconds
    /\ log' = Append(log, Event("sleep", start))
    /\ pc' = "get"
    /\ UNCHANGED << env, exit_status, self, processed_papers, start, response,
                    papers, total_results, calls, gets, deliveries, fatal,
                    first_total, stable, emitted, prev_processed, files,
                    posts, signed, ranges >>

\* the second of the minute at which the process starts
StartSeconds == {0, 58}

Init ==
    /\ env \in Envs
    /\ pc = "main"
    /\ exit_status = Running
    /\ self = NoCollector
    /\ processed_papers = {}
    /\ start = 0
    /\ response = NoResponse
    /\ papers = <<>>
    /\ total_results = 0
    /\ calls = 0
    /\ gets = <<>>
    /\ deliveries = <<>>
    /\ sleeps = 0
    /\ fatal = {}
    /\ first_total = NoTotalYet
    /\ stable = TRUE
    /\ emitted = <<>>
    /\ prev_processed = {}
    /\ clock \in StartSeconds
    /\ files = <<>>
    /\ posts = <<>>
    /\ signed = <<>>
    /\ ranges = <<>>
    /\ log = <<>>

Next ==
    \/ Main
    \/ GetOk
    \/ GetFail
    \/ Parse
    \/ NoDelivery
    \/ SendToApiService
    \/ SaveToLocal
    \/ Advance
    \/ Sleep

Spec == Init /\ [][Next]_vars

\* The process is single-threaded and is scheduled until it exits: every
\* step of Next moves pc, and a step is possible until pc = "exited".
PcValues == {"main", "get", "parse", "deliver", "advance", "sleep", "exited"}
Progress == pc # "exited" /\ pc' \in PcValues \ {pc}
FairSpec == Spec /\ WF_pc(Progress)

\* ------------------------------------------- the parser on its own
\* One collector is fed a sequence of response bodies drawn from
\* ParserResponses, as collect_papers feeds it one body per page.
ParserInit ==
    /\ env \in { e \in Envs : e.OUTPUT_MODE = "local" /\ e.ENABLE_SIGNATURE = "" }
    /\ pc = "idle"
    /\ exit_status = Running
    /\ self = Construct("local", None, FALSE, env).self
    /\ processed_papers = {}
    /\ start = 0
    /\ response = NoResponse
    /\ papers = <<>>
    /\ total_results = 0
    /\ calls = 0
    /\ gets = <<>>
    /\ deliveries = <<>>
    /\ sleeps = 0
    /\ fatal = {}
    /\ first_total = NoTotalYet
    /\ stable = TRUE
    /\ emitted = <<>>
    /\ prev_processed = {}
    /\ clock = 0
    /\ files = <<>>
    /\ posts = <<>>
    /\ signed = <<>>
    /\ ranges = <<>>
    /\ log = <<>>

\* _parse_response is called on a body
ParseCall ==
    /\ pc = "idle"
    /\ calls < MaxCalls
    /\ \E r \in ParserResponses :
         /\ response' = r
         /\ ParseEffect(r)
    /\ pc' = "returned"
    /\ UNCHANGED << env, exit_status, self, start, gets, deliveries, sleeps,
                    fatal, clock, files, posts, signed, ranges, log >>

\* the caller is done with the batch
ParseReturn ==
    /\ pc = "returned"
    /\ pc' = "idle"
    /\ response' = NoResponse
    /\ papers' = <<>>
    /\ UNCHANGED << env, exit_status, self, processed_papers, start,
                    total_results, calls, gets, deliveries, sleeps, fatal,
                    first_total, stable, emitted, prev_processed, clock,
                    files, posts, signed, ranges, log >>

ParserNext == ParseCall \/ ParseReturn

ParserSpec == ParserInit /\ [][ParserNext]_vars

\* ================================================================ claims
Ceil(n, d) == (n + d - 1) \div d
Max(a, b) == IF a >= b THEN a ELSE b
Last(sq) == sq[Len(sq)]
FailedDelivery(d) == d.outcome # "ok"

\* C1: a delivery failure in either sink is fatal for the run: no GET to the
\* search API is issued after a failed delivery, so no request carries a
\* start beyond the page whose hand-off failed.
C1_NoGetAfterFailedDelivery ==
    \A i \in 1..Len(deliveries) :
        FailedDelivery(deliveries[i]) =>
            \A j \in 1..Len(gets) : gets[j].start <= deliveries[i].start

\* C2: a run that met a fatal condition (configuration error, failed GET,
\* missing or non-numeric total, failed delivery, bad signing key) ends with
\* a non-zero status; status zero means the loop completed with none.
C2_FatalExitsNonZero ==
    pc = "exited" => (exit_status = 0 <=> fatal = {})

\* C3: a failed GET or a response without a numeric total-result count ends
\* the run: the process has exited, no page was requested twice, and
\* nothing of the failed page, the last one requested, reached a sink.
C3_FailedPageIsFatal ==
    (fatal \cap {"get", "parse"} # {}) =>
        /\ pc = "exited"
        /\ \A i, j \in 1..Len(gets) : i < j => gets[i].start < gets[j].start
        /\ \A i \in 1..Len(deliveries) : deliveries[i].start < Last(gets).start
        /\ \/ "get" \in fatal /\ calls = Len(gets) - 1
           \/ "parse" \in fatal /\ calls = Len(gets) /\ papers = <<>>

C3_Witness ==
    /\ pc = "exited"
    /\ "parse" \in fatal
    /\ Len(gets) = 2
    /\ Len(deliveries) = 1

\* C4: with no failure and the same total_results = N > 0 on every page,
\* the GETs are start = 0, 100, 200, .. with max_results = 100, one for
\* every multiple of 100 below N and no other; N = 250 gives 0, 100, 200.
C4_PaginationSequence ==
    (fatal = {} /\ stable /\ first_total > 0) =>
        /\ \A i \in 1..Len(gets) :
              /\ gets[i] = [start |-> 100 * (i - 1), max_results |-> 100]
              /\ gets[i].start < first_total
        /\ pc = "exited" => Len(gets) = Ceil(first_total, 100)
        /\ (pc = "exited" /\ first_total = 250) =>
              [i \in 1..Len(gets) |-> gets[i].start] = <<0, 100, 200>>

C4_Witness ==
    /\ pc = "exited"
    /\ fatal = {}
    /\ stable
    /\ first_total = 250
    /\ Len(gets) = 3

\* C5 as stated: for a stable total_results >= 0 the loop ends after at most
\* ceil(total_results / page_size) iterations.
C5_AtMostCeilIterations ==
    (stable /\ first_total >= 0) => Len(gets) <= Ceil(first_total, PageSize)

\* C5 amended: for a stable total_results >= 0 the loop ends, after at most
\* max(1, ceil(total_results / page_size)) iterations: the first page is
\* always fetched.
C5_TerminatesWithinBound ==
    /\ []((stable /\ first_total >= 0) =>
             Len(gets) <= Max(1, Ceil(first_total, PageSize)))
    /\ <>(pc = "exited" \/ ~stable)

C5_Witness ==
    /\ pc = "exited"
    /\ stable
    /\ first_total = 0
    /\ Len(gets) = 1
    /\ fatal = {}

\* ------------------------------------------------ claims about the parser
\* the entry is one the loop body turns into a paper when nothing was seen
Accepts(e) == ParseEntry(e, {}, env.utcoffset) # <<>>

Returned == pc = "returned" /\ ~ParseRaised(response)

\* C6: no normalized id appears in more than one emitted Record, and an
\* entry whose id was already emitted is skipped without aborting the page:
\* every other acceptable entry of the page with a new id is in the batch.
C6_NoIdEmittedTwice ==
    /\ \A i, j \in 1..Len(emitted) : i # j => emitted[i] # emitted[j]
    /\ Returned =>
         \A i \in 1..Len(response.entries) :
             LET e == response.entries[i]
             IN  (Accepts(e) /\ NormalizeId(e.id[1]) \notin prev_processed) =>
                     \E k \in 1..Len(papers) :
                         papers[k].arxiv_id = NormalizeId(e.id[1])

C6_Witness ==
    /\ Returned
    /\ calls = 2
    /\ Len(response.entries) = 2
    /\ Accepts(response.entries[1])
    /\ NormalizeId(response.entries[1].id[1]) \in prev_processed
    /\ Len(papers) = 1
    /\ papers[1].arxiv_id = <<"2">>

\* the text is in the format YYYY-MM-DDTHH:MM:SSZ
StrictFormat(s) ==
    /\ Len(s) = 20
    /\ \A i \in {1, 2, 3, 4, 6, 7, 9, 10, 12, 13, 15, 16, 18, 19} : s[i] \in Digits
    /\ s[5] = "-" /\ s[8] = "-" /\ s[11] = "T"
    /\ s[14] = ":" /\ s[17] = ":" /\ s[20] = "Z"

\* a required field is missing, there is no author or no category, or the
\* published timestamp is not in the strict format
Malformed(e) ==
    \/ ~Truthy(e.id) \/ ~Truthy(e.title) \/ ~Truthy(e.summary)
    \/ ~Truthy(e.published)
    \/ AuthorNames(e.authors) = <<>>
    \/ CategoryTerms(e.categories) = <<>>
    \/ ~StrictFormat(e.published[1])

WellFormed(e) == ~Malformed(e)

\* C7: every malformed entry is skipped, and the Records of the other
\* entries are those, in the same order, that the response without the
\* malformed entries gives.
C7_MalformedEntrySkipped ==
    Returned =>
        papers = ParseEntries(SelectSeq(response.entries, WellFormed),
                              prev_processed, env.utcoffset).papers

\* the id carries neither a path nor a version suffix
Unversioned(id) ==
    /\ \A i \in 1..Len(id) : id[i] # "/"
    /\ \A i \in 1..(Len(id) - 1) : ~(id[i] = "v" /\ id[i + 1] \in Digits)

\* C8: every emitted Record has a non-empty title and abstract, as stored,
\* at least one author, at least one category, and an id without version
\* suffix.
C8_RecordValid ==
    \A k \in 1..Len(papers) :
        /\ Len(papers[k].title) > 0
        /\ Len(papers[k].abstract) > 0
        /\ Len(papers[k].authors) >= 1
        /\ Len(papers[k].categories) >= 1
        /\ Unversioned(papers[k].arxiv_id)

C10_BadKeyFailsAtStartup ==
    /\ (/\ env.ENABLE_SIGNATURE = "true"
        /\ env.OUTPUT_MODE = "api"
        /\ env.ARXIV_IMPORT_PRIVATE_KEY # "rsa-pem") =>
           /\ Construct("api", None, TRUE, env).raised
           /\ gets = <<>>
           /\ deliveries = <<>>
           /\ pc \in {"main", "exited"}
    /\ \A i \in 1..Len(deliveries) :
           (deliveries[i].sink = "api" /\ self.enable_signature) =>
               deliveries[i].signed_with = "rsa-key"

C10_Witness ==
    /\ pc = "exited"
    /\ exit_status = 1
    /\ "key" \in fatal
    /\ env.OUTPUT_MODE = "api"
    /\ env.API_SERVICE_URL # ""
    /\ env.ENABLE_SIGNATURE = "true"
    /\ env.ARXIV_IMPORT_PRIVATE_KEY = "ec-pem"
    /\ gets = <<>>

\* ------------------------------------------ claims about the remote sink
SigningEnabled == env.ENABLE_SIGNATURE = "true"
AuthEnabled == env.ENABLE_AUTH = "true"

\* C11: every POST carries Content-Type: application/json; it carries
\* X-Signature exactly when signing is enabled, and the signature is the
\* one computed over the bytes sent as the body of that POST; the Signer is
\* called once per signed POST and never when signing is disabled or the
\* mode is local.
C11_SignatureOverSentBody ==
    /\ \A i \in 1..Len(posts) :
          /\ posts[i].headers.ContentType = Some("application/json")
          /\ posts[i].headers.XSignature # None <=> SigningEnabled
          /\ posts[i].headers.XSignature # None =>
                /\ posts[i].headers.XSignature[1].base64.message
                     = Sha256(posts[i].data)
                /\ posts[i].headers.XSignature[1].base64.key = "rsa-key"
                /\ i <= Len(signed) /\ signed[i] = posts[i].data
    /\ (~SigningEnabled \/ env.OUTPUT_MODE # "api") => signed = <<>>
    /\ SigningEnabled => Len(signed) = Len(posts)
    /\ env.OUTPUT_MODE # "api" => posts = <<>>

C11_Witness ==
    /\ pc = "exited"
    /\ SigningEnabled
    /\ Len(posts) = 1
    /\ Len(signed) = 1
    /\ posts[1].data = RequestBody(ParseEntries(<< Good(Id2), Good(Id1v1) >>,
                                                {}, env.utcoffset).papers)
    /\ posts[1].headers.XSignature # None

EntryId(e) == IF Truthy(e.id) THEN NormalizeId(e.id[1]) ELSE <<>>

\* ids appear in the entries in that order: position k of ids is taken from
\* an entry behind the one position k - 1 is taken from
RECURSIVE InOrderOf(_, _)
InOrderOf(ids, entries) ==
    IF ids = <<>> THEN TRUE
    ELSE IF entries = <<>> THEN FALSE
    ELSE IF EntryId(Head(entries)) = Head(ids)
         THEN InOrderOf(Tail(ids), Tail(entries))
         ELSE InOrderOf(ids, Tail(entries))

\* C13: GETs and deliveries are in strictly increasing start order; a batch
\* is delivered after the GET of its page and before every later GET, the
\* steps of the run follow the cycle get, deliver (if any), sleep, get; and
\* the batch handed to the sink, its POST body and its file lines keep the
\* order of the entries in the response.
C13_StrictlySequential ==
    /\ \A i, j \in 1..Len(gets) : i < j => gets[i].start < gets[j].start
    /\ \A i, j \in 1..Len(deliveries) :
           i < j => deliveries[i].start < deliveries[j].start
    /\ \A i, j \in 1..Len(log) :
           (log[i].ev = "deliver" /\ log[j].ev = "get") =>
               (j < i <=> log[j].start <= log[i].start)
    /\ \A i \in 1..(Len(log) - 1) :
           /\ log[i].ev = "get" =>
                \/ log[i + 1] = Event("deliver", log[i].start)
                \/ log[i + 1].ev = "sleep"
           /\ log[i].ev = "deliver" => log[i + 1].ev = "sleep"
           /\ log[i].ev = "sleep" => log[i + 1].ev = "get"
    /\ (pc \in {"deliver", "advance"}) =>
           InOrderOf(Ids(papers), response.entries)
    /\ (pc = "advance" /\ papers # <<>>) =>
           /\ Last(deliveries).ids = Ids(papers)
           /\ Last(deliveries).start = Last(gets).start
           /\ Last(deliveries).sink = "api" =>
                  Last(posts).data = RequestBody(papers)
           /\ (Last(deliveries).sink = "local"
                 /\ Last(deliveries).outcome = "ok") =>
                  files[LocalStamp(clock, env.utcoffset)] = JsonLines(papers)

C13_Witness ==
    /\ pc = "exited"
    /\ Len(gets) = 2
    /\ Len(deliveries) = 1
    /\ deliveries[1].ids = << <<"2">>, <<"1">> >>
    /\ log = << Event("get", 0), Event("deliver", 0), Event("sleep", 100),
                Event("get", 100) >>

\* the number of ev events among the first n entries of log
Count(ev, n) == Cardinality({k \in 1..n : log[k].ev = ev})

\* C14: the k-th sleep comes after exactly k GETs and the GET after it is
\* GET k + 1, so there is no sleep before the first GET and exactly one
\* between two consecutive GETs; when the run has ended, however it ended,
\* the last GET is followed by no sleep.
C14_DelayOnlyBetweenGets ==
    /\ \A i \in 1..Len(log) :
          /\ log[i].ev = "sleep" => Count("sleep", i) = Count("get", i)
          /\ log[i].ev = "get" => Count("get", i) = Count("sleep", i) + 1
    /\ Count("sleep", Len(log)) = sleeps
    /\ Count("get", Len(log)) = Len(gets)
    /\ pc = "exited" => sleeps = Max(0, Len(gets) - 1)

C14_Witness ==
    /\ pc = "exited"
    /\ "get" \in fatal
    /\ Len(gets) = 3
    /\ sleeps = 2
    /\ Last(log).ev = "get"

\* -------------------------------------------- claims about the local sink
\* C15: a local-mode run that emitted at least one Record and met no
\* failure leaves exactly one file in the output directory, and that file
\* has one line for every Record emitted in the run.
C15_OneFilePerRun ==
    (/\ env.OUTPUT_MODE = "local"
     /\ pc = "exited"
     /\ fatal = {}
     /\ emitted # <<>>) =>
        /\ Cardinality(DOMAIN files) = 1
        /\ \A n \in DOMAIN files : Len(files[n]) = Len(emitted)

\* ------------------------------------------------ claims about timestamps
\* 2024-01-15T08:30:00Z as seconds since 1970-01-01T00:00:00Z: day 19737
\* of the epoch, 08:30:00
StrictDateInstant == 19737 * 86400 + 8 * 3600 + 30 * 60

\* C16: a Record made from an entry whose published text is in the strict
\* format has as published_date the Unix timestamp of the UTC instant the
\* text names, whatever the local zone of the process is;
\* "2024-01-15T08:30:00Z" gives 1705307400.  (That a text in another format
\* makes the entry be skipped is the statement of C7.)
C16_TimestampIsUtcInstant ==
    Returned =>
        \A k \in 1..Len(papers) :
            \A i \in 1..Len(response.entries) :
                LET e == response.entries[i]
                IN  (/\ EntryId(e) = papers[k].arxiv_id
                     /\ Truthy(e.published)
                     /\ StrictFormat(e.published[1])) =>
                        /\ papers[k].published_date
                             = WallSeconds(e.published[1])
                        /\ e.published[1] = StrictDate =>
                               papers[k].published_date = StrictDateInstant

\* ------------------------------------------------ claims about the dedup set
Range(sq) == { sq[i] : i \in 1..Len(sq) }

\* C17: the dedup set is empty before the first response and is at all
\* times the set of the ids of the Records emitted so far; a call never
\* removes an id and adds exactly the ids of the Records it returns, so a
\* dropped entry leaves the set alone and an acceptable entry whose id
\* was only seen on dropped entries is emitted.
C17_DedupSetIsEmittedIds ==
    /\ calls = 0 => processed_papers = {}
    /\ processed_papers = Range(emitted)
    /\ prev_processed \subseteq processed_papers
    /\ pc = "returned" =>
         processed_papers \ prev_processed = Range(Ids(papers))
    /\ Returned =>
         \A i \in 1..Len(response.entries) :
             LET e == response.entries[i]
                 others == { response.entries[j] :
                               j \in 1..Len(response.entries) \ {i} }
             IN  /\ (/\ ~Accepts(e)
                      /\ EntryId(e) \notin prev_processed
                      /\ \A o \in others :
                             Accepts(o) => EntryId(o) # EntryId(e)) =>
                         EntryId(e) \notin processed_papers
                 /\ (Accepts(e) /\ EntryId(e) \notin prev_processed) =>
                       EntryId(e) \in Range(Ids(papers))

C17_Witness ==
    /\ Returned
    /\ calls = 2
    /\ prev_processed = { <<"2">> }
    /\ Len(response.entries) = 2
    /\ ~Accepts(response.entries[1])
    /\ EntryId(response.entries[1]) = <<"1">>
    /\ Accepts(response.entries[2])
    /\ EntryId(response.entries[2]) = <<"1">>
    /\ Ids(papers) = << <<"1">> >>
    /\ processed_papers = { <<"1">>, <<"2">> }

\* ---------------------------------------------- claims about the hand-off
RECURSIVE Flat(_)
Flat(seqs) == IF seqs = <<>> THEN <<>> ELSE Head(seqs) \o Flat(Tail(seqs))

DeliveredIds == Flat([i \in 1..Len(deliveries) |-> deliveries[i].ids])

\* C18: every hand-off goes to the sink of the configured output mode, the
\* remote sink in api mode and the local sink in local mode, and the mode
\* of the collector stays the configured one; a page's batch is handed
\* over once if it is not empty and not at all if it is empty, so the
\* batches handed over are, in order, the Records emitted, and each
\* hand-off is one POST in api mode and no POST in local mode.
C18_ExactlyOnceHandOff ==
    /\ \A i \in 1..Len(deliveries) :
          /\ env.OUTPUT_MODE = "api" => deliveries[i].sink = "api"
          /\ env.OUTPUT_MODE = "local" => deliveries[i].sink = "local"
          /\ deliveries[i].ids # <<>>
    /\ \A i, j \in 1..Len(deliveries) :
          i # j => deliveries[i].start # deliveries[j].start
    /\ self.constructed => self.output_mode = env.OUTPUT_MODE
    /\ pc = "advance" =>
          LET here == { i \in 1..Len(deliveries) : deliveries[i].start = start }
          IN  IF papers = <<>> THEN here = {}
              ELSE /\ Cardinality(here) = 1
                   /\ \A i \in here : deliveries[i].ids = Ids(papers)
    /\ pc # "deliver" => DeliveredIds = emitted
    /\ Count("deliver", Len(log)) = Len(deliveries)
    /\ Len(posts) = (IF env.OUTPUT_MODE = "api" THEN Len(deliveries) ELSE 0)
    /\ env.OUTPUT_MODE = "api" => files = <<>>

C18_Witness ==
    /\ pc = "exited"
    /\ env.OUTPUT_MODE = "local"
    /\ Len(gets) = 3
    /\ Len(deliveries) = 2
    /\ deliveries[1].start = 0
    /\ deliveries[2].start = 200
    /\ emitted = << <<"2">>, <<"1">> >>

\* ------------------------------------------------ claims about the window
\* C19: all the GETs of a run carry the same date-range fragment.
C19_SameWindowOnEveryPage ==
    \A i, j \in 1..Len(ranges) : ranges[i] = ranges[j]

====
